---- MODULE Spec2Model ----
(***************************************************************************)
(* Model of the DOM diff engine of ui-diff-reviewer (src/src/ai-eval.ts):  *)
(* extractDiff, extractStructuralDifferences and generateDiffSummary, and  *)
(* of the command line run around it (src/src/cli.ts).                     *)
(*                                                                         *)
(* Strings are TLA+ strings (Len, \o and SubSeq act on their characters).  *)
(* A DOM node is a record with the DOM fields the code reads:              *)
(*   nodeType (1 element, 3 text, 8 comment), nodeName, data (character    *)
(*   data of a text or comment node), attributes (the NamedNodeMap, a      *)
(*   sequence of name/value records with distinct names, in source order)  *)
(*   and childNodes.                                                       *)
(***************************************************************************)
EXTENDS Integers, Sequences, FiniteSets, TLC

(***************************************************************************)
(* Bounds of the model.                                                    *)
(***************************************************************************)
MaxKids == 2      \* a generated <body> has at most this many children
MaxRecords == 3   \* a sequence handed to generateDiffSummary has at most
                  \* this many records

(***************************************************************************)
(* State: the two parsed documents (doc1, doc2 of extractDiff) and the two *)
(* most recent calls of extractDiff, each with its inputs and the          *)
(* DiffResult it returned.  latest and previous are empty or hold one call.*)
(* records is a sequence of change records handed to generateDiffSummary   *)
(* on its own, rendered is empty or holds the string it returned.          *)
(* cli is one run of the command line program (cli.ts main).               *)
(***************************************************************************)
VARIABLES doc1, doc2, previous, latest, records, rendered, cli

vars == << doc1, doc2, previous, latest, records, rendered, cli >>

(***************************************************************************)
(* DOM constants and program constants.                                    *)
(***************************************************************************)
ELEMENT_NODE == 1
TEXT_NODE == 3
COMMENT_NODE == 8
PreviewLen == 50

(***************************************************************************)
(* DOM node constructors (what the HTML parser hands to the code).         *)
(***************************************************************************)
Attr(n, v) == [name |-> n, value |-> v]

Elem(tag, attrs, kids) ==
  [nodeType |-> ELEMENT_NODE, nodeName |-> tag, data |-> "",
   attributes |-> attrs, childNodes |-> kids]

Text(s) ==
  [nodeType |-> TEXT_NODE, nodeName |-> "#text", data |-> s,
   attributes |-> <<>>, childNodes |-> <<>>]

Comment(s) ==
  [nodeType |-> COMMENT_NODE, nodeName |-> "#comment", data |-> s,
   attributes |-> <<>>, childNodes |-> <<>>]

(***************************************************************************)
(* String helpers of the JavaScript runtime.                               *)
(***************************************************************************)
WhiteSpace == {" ", "\n", "\t"}

CharAt(s, i) == SubSeq(s, i, i)

RECURSIVE TrimStart(_)
TrimStart(s) ==
  IF Len(s) > 0 /\ CharAt(s, 1) \in WhiteSpace
  THEN TrimStart(SubSeq(s, 2, Len(s)))
  ELSE s

RECURSIVE TrimEnd(_)
TrimEnd(s) ==
  IF Len(s) > 0 /\ CharAt(s, Len(s)) \in WhiteSpace
  THEN TrimEnd(SubSeq(s, 1, Len(s) - 1))
  ELSE s

\* String.prototype.trim
Trim(s) == TrimEnd(TrimStart(s))

\* String.prototype.substring(from, to), 0-based, end exclusive
Substring(s, from, to) ==
  LET hi == IF to > Len(s) THEN Len(s) ELSE to
  IN  SubSeq(s, from + 1, hi)

RECURSIVE Join(_, _)
\* Array.prototype.join
Join(parts, sep) ==
  IF Len(parts) = 0 THEN ""
  ELSE IF Len(parts) = 1 THEN parts[1]
  ELSE parts[1] \o sep \o Join(Tail(parts), sep)

RECURSIVE Flatten(_)
\* concatenation of a sequence of sequences (push(...xs) in a loop)
Flatten(ss) ==
  IF Len(ss) = 0 THEN <<>> ELSE Head(ss) \o Flatten(Tail(ss))

Max(a, b) == IF a > b THEN a ELSE b

(***************************************************************************)
(* Node.textContent: the data of a text or comment node; for an element    *)
(* the concatenated textContent of its children, comments excluded.        *)
(***************************************************************************)
RECURSIVE TextContent(_)
TextContent(node) ==
  IF node.nodeType = ELEMENT_NODE
  THEN Join([i \in 1..Len(node.childNodes) |->
               IF node.childNodes[i].nodeType = COMMENT_NODE THEN ""
               ELSE TextContent(node.childNodes[i])], "")
  ELSE node.data

(***************************************************************************)
(* Map over the attributes (insertion order = source order).               *)
(***************************************************************************)
MapHas(m, name) == \E i \in 1..Len(m) : m[i].name = name

MapGet(m, name) == m[CHOOSE i \in 1..Len(m) : m[i].name = name].value

AttrContent(name, value) == name \o "=\"" \o value \o "\""

(***************************************************************************)
(* extractStructuralDifferences, ai-eval.ts lines 122-249.                 *)
(***************************************************************************)
\* a single array shared by all calls instead of one array per call
NewDiffsShared ==
  IF latest = <<>> THEN <<>> ELSE latest[1].result.diffs

\* line 127: every call starts from its own empty array
NewDiffs == <<>>

\* the type of node1 compared with itself instead of with node2's
KindMismatchSelf(node1, node2) == node1.nodeType # node1.nodeType

\* line 130
KindMismatch(node1, node2) == node1.nodeType # node2.nodeType

\* lines 131-136
ReplaceNodeDiff(node1, node2, path) ==
  [action |-> "replaceNode", path |-> path,
   oldValue |-> node1.nodeName, newValue |-> node2.nodeName]

\* the comparison of the two texts left out
TextChangedNoCompare(text1, text2) == text1 # "" /\ text2 # ""

\* the two emptiness tests left out
TextChangedOnly(text1, text2) == text1 # text2

\* line 145
TextChanged(text1, text2) == text1 # text2 /\ text1 # "" /\ text2 # ""

\* lines 143-153
TextDiffs(node1, node2, path) ==
  LET text1 == Trim(TextContent(node1))
      text2 == Trim(TextContent(node2))
  IN  IF TextChanged(text1, text2)
      THEN << [action |-> "modifyTextElement", path |-> path,
               oldValue |-> text1, newValue |-> text2] >>
      ELSE <<>>

\* the tag of el1 compared with itself instead of with el2's
TagMismatchSelf(el1, el2) == el1.nodeName # el1.nodeName

\* line 163
TagMismatch(el1, el2) == el1.nodeName # el2.nodeName

\* lines 164-169
ReplaceElementDiff(el1, el2, path) ==
  [action |-> "replaceElement", path |-> path,
   oldValue |-> el1.nodeName, newValue |-> el2.nodeName]

\* lines 181-198: one pass over B's attributes, additions and modifications
AddedModifiedAttrs(el1, el2, path) ==
  LET attrMap1 == el1.attributes
      attrMap2 == el2.attributes
      One(a) ==
        IF ~MapHas(attrMap1, a.name)
        THEN << [action |-> "addAttribute", element |-> el1.nodeName,
                 path |-> path, content |-> AttrContent(a.name, a.value)] >>
        ELSE IF MapGet(attrMap1, a.name) # a.value
        THEN << [action |-> "modifyAttribute", element |-> el1.nodeName,
                 path |-> path,
                 oldValue |-> AttrContent(a.name, MapGet(attrMap1, a.name)),
                 newValue |-> AttrContent(a.name, a.value)] >>
        ELSE <<>>
  IN  Flatten([k \in 1..Len(attrMap2) |-> One(attrMap2[k])])

\* the removal pass run over B's attributes instead of A's
RemovedAttrsOverB(el1, el2, path) ==
  LET attrMap2 == el2.attributes
      One(a) ==
        IF ~MapHas(attrMap2, a.name)
        THEN << [action |-> "removeAttribute", element |-> el1.nodeName,
                 path |-> path, content |-> AttrContent(a.name, a.value)] >>
        ELSE <<>>
  IN  Flatten([k \in 1..Len(attrMap2) |-> One(attrMap2[k])])

\* lines 201-210: one pass over A's attributes, removals
RemovedAttrs(el1, el2, path) ==
  LET attrMap1 == el1.attributes
      attrMap2 == el2.attributes
      One(a) ==
        IF ~MapHas(attrMap2, a.name)
        THEN << [action |-> "removeAttribute", element |-> el1.nodeName,
                 path |-> path, content |-> AttrContent(a.name, a.value)] >>
        ELSE <<>>
  IN  Flatten([k \in 1..Len(attrMap1) |-> One(attrMap1[k])])

\* the removal pass run before the addition and modification pass
AttrDiffsRemovedFirst(el1, el2, path) ==
  RemovedAttrs(el1, el2, path) \o AddedModifiedAttrs(el1, el2, path)

\* lines 174-210
AttrDiffs(el1, el2, path) ==
  AddedModifiedAttrs(el1, el2, path) \o RemovedAttrs(el1, el2, path)

\* the loop index written counted from 1
ChildPathOneBased(path, el1, i) ==
  path \o "/" \o el1.nodeName \o "[" \o ToString(i + 1) \o "]"

\* lines 226, 233, 241: i is the loop index, counted from 0
ChildPath(path, el1, i) ==
  path \o "/" \o el1.nodeName \o "[" \o ToString(i) \o "]"

\* the text content taken whole, without the cut at 50 characters
PreviewWhole(child) == TextContent(child)

\* lines 227, 234
Preview(child) == Substring(TextContent(child), 0, PreviewLen)

\* lines 223-228
AddElementDiff(el1, child2, path, i) ==
  [action |-> "addElement", element |-> child2.nodeName,
   path |-> ChildPath(path, el1, i), content |-> Preview(child2)]

\* lines 230-235
RemoveElementDiff(el1, child1, path, i) ==
  [action |-> "removeElement", element |-> child1.nodeName,
   path |-> ChildPath(path, el1, i), content |-> Preview(child1)]

RECURSIVE extractStructuralDifferences(_, _, _)

\* lines 213-245
ChildDiffs(el1, el2, path) ==
  LET children1 == el1.childNodes
      children2 == el2.childNodes
      maxLen == Max(Len(children1), Len(children2))
      Step(i) ==
        IF i >= Len(children1) /\ i < Len(children2)
        THEN << AddElementDiff(el1, children2[i + 1], path, i) >>
        ELSE IF i < Len(children1) /\ i >= Len(children2)
        THEN << RemoveElementDiff(el1, children1[i + 1], path, i) >>
        ELSE IF i < Len(children1) /\ i < Len(children2)
        THEN extractStructuralDifferences(children1[i + 1], children2[i + 1],
                                          ChildPath(path, el1, i))
        ELSE <<>>
  IN  Flatten([k \in 1..maxLen |-> Step(k - 1)])

\* the test that both nodes are elements (line 157) left out: whatever is
\* not a text node is compared as an element
extractStructuralDifferencesNoElementTest(node1, node2, path) ==
  NewDiffs \o
  ( IF KindMismatch(node1, node2)
    THEN << ReplaceNodeDiff(node1, node2, path) >>
    ELSE IF node1.nodeType = TEXT_NODE
    THEN TextDiffs(node1, node2, path)
    ELSE IF TagMismatch(node1, node2)
         THEN << ReplaceElementDiff(node1, node2, path) >>
         ELSE AttrDiffs(node1, node2, path) \o ChildDiffs(node1, node2, path) )

\* lines 122-249
extractStructuralDifferences(node1, node2, path) ==
  NewDiffs \o
  ( IF KindMismatch(node1, node2)
    THEN << ReplaceNodeDiff(node1, node2, path) >>
    ELSE IF node1.nodeType = TEXT_NODE
    THEN TextDiffs(node1, node2, path)
    ELSE IF node1.nodeType = ELEMENT_NODE /\ node2.nodeType = ELEMENT_NODE
    THEN IF TagMismatch(node1, node2)
         THEN << ReplaceElementDiff(node1, node2, path) >>
         ELSE AttrDiffs(node1, node2, path) \o ChildDiffs(node1, node2, path)
    ELSE <<>> )

(***************************************************************************)
(* generateDiffSummary, ai-eval.ts lines 254-291.                          *)
(***************************************************************************)
\* lines 260, 264: an empty content is falsy
ContentSuffix(diff) ==
  IF diff.content # "" THEN ": \"" \o diff.content \o "\"" ELSE ""

\* lines 258-287
SummaryPart(diff) ==
  CASE diff.action = "addElement" ->
         "+ Added: <" \o diff.element \o ">" \o ContentSuffix(diff)
           \o " at " \o diff.path
    [] diff.action = "removeElement" ->
         "- Removed: <" \o diff.element \o ">" \o ContentSuffix(diff)
           \o " at " \o diff.path
    [] diff.action = "modifyTextElement" ->
         "~ Modified text: \"" \o diff.oldValue \o "\" → \""
           \o diff.newValue \o "\""
    [] diff.action = "addAttribute" ->
         "+ Added attribute on <" \o diff.element \o ">: " \o diff.content
    [] diff.action = "removeAttribute" ->
         "- Removed attribute on <" \o diff.element \o ">: " \o diff.content
    [] diff.action = "modifyAttribute" ->
         "~ Modified attribute on <" \o diff.element \o ">: "
           \o diff.oldValue \o " → " \o diff.newValue
    [] diff.action = "replaceElement" ->
         "↔ Replaced <" \o diff.oldValue \o "> with <" \o diff.newValue
           \o "> at " \o diff.path
    [] diff.action = "replaceNode" ->
         "↔ Replaced node " \o diff.oldValue \o " with " \o diff.newValue
           \o " at " \o diff.path
    [] OTHER -> "? Unknown action: " \o diff.action

\* lines 254-291
generateDiffSummary(diffs) ==
  Join([k \in 1..Len(diffs) |-> SummaryPart(diffs[k])], "\n")

(***************************************************************************)
(* extractDiff, ai-eval.ts lines 89-108, on the two parsed <body> trees.   *)
(***************************************************************************)
extractDiff(body1, body2) ==
  LET diffs == extractStructuralDifferences(body1, body2, "")
      summary == generateDiffSummary(diffs)
  IN  [diffs |-> diffs, count |-> Len(diffs), summary |-> summary]

(***************************************************************************)
(* Input documents: <body> trees as the HTML parser produces them.         *)
(***************************************************************************)
LongText == "0123456789012345678901234567890123456789012345678901"

PlainDiv ==
  Elem("DIV", << Attr("lang", "en") >>,
       << Text(" X "), Elem("P", <<>>, <<>>) >>)

RichDiv ==
  Elem("DIV", << Attr("class", "k"), Attr("id", "b") >>,
       << Text("Y\nZ"),
          Elem("SECTION", <<>>, << Text("in") >>),
          Comment("c") >>)

TitledDiv ==
  Elem("DIV", << Attr("id", "a"), Attr("title", "t"), Attr("class", "k") >>,
       << Text("X"), Comment("c") >>)

LongSection ==
  Elem("SECTION", << Attr("id", "a") >>, << Text(LongText) >>)

\* nodes that may appear as children of a generated <body>
Fragments ==
  { Text(" \n"), PlainDiv, RichDiv, LongSection }

RECURSIVE SeqsUpTo(_, _)
\* all sequences over S of length at most n
SeqsUpTo(S, n) ==
  IF n = 0 THEN { <<>> }
  ELSE LET shorter == SeqsUpTo(S, n - 1)
       IN  shorter \cup { Append(q, x) : q \in shorter, x \in S }

GeneratedDocs ==
  { Elem("BODY", <<>>, kids) : kids \in SeqsUpTo(Fragments, MaxKids) }

\* the documents of the specification's scenarios
TitleDoc == Elem("BODY", <<>>, << Elem("H1", <<>>, << Text("Title") >>) >>)

TitleParagraphDoc ==
  Elem("BODY", <<>>, << Elem("H1", <<>>, << Text("Title") >>),
                        Elem("P", <<>>, << Text("New paragraph") >>) >>)

TwoItemList ==
  Elem("BODY", <<>>,
       << Elem("UL", <<>>, << Elem("LI", <<>>, << Text("X") >>),
                              Elem("LI", <<>>, << Text("Y") >>) >>) >>)

ThreeItemList ==
  Elem("BODY", <<>>,
       << Elem("UL", <<>>, << Elem("LI", <<>>, << Text("NEW") >>),
                              Elem("LI", <<>>, << Text("X") >>),
                              Elem("LI", <<>>, << Text("Y") >>) >>) >>)

LinkDoc == Elem("BODY", <<>>, << Elem("A", << Attr("href", "/x") >>, <<>>) >>)

BlankLinkDoc ==
  Elem("BODY", <<>>,
       << Elem("A", << Attr("href", "/x"), Attr("target", "_blank") >>,
               <<>>) >>)

\* two documents whose <body> carries attributes
DarkDoc ==
  Elem("BODY", << Attr("class", "dark") >>, << Text("X"), PlainDiv >>)

LightDoc ==
  Elem("BODY", << Attr("lang", "en"), Attr("class", "light") >>,
       << Text("X"), RichDiv >>)

\* two documents that start with an element whose attributes come in
\* another order
TitledDoc == Elem("BODY", <<>>, << TitledDiv >>)

TitledPlainDoc == Elem("BODY", <<>>, << TitledDiv, PlainDiv, Text("X") >>)

ExampleDocs ==
  { TitleDoc, TitleParagraphDoc, TwoItemList, ThreeItemList,
    LinkDoc, BlankLinkDoc, DarkDoc, LightDoc, TitledDoc, TitledPlainDoc }

Docs == GeneratedDocs \cup ExampleDocs

\* no run of the command line program
NotStarted == [pc |-> "idle"]

(***************************************************************************)
(* Trees handed to the comparator that do not come from the HTML parser:   *)
(* extractStructuralDifferences accepts any Element | Document | ChildNode *)
(* (lines 123-124), so also a processing instruction, and at run time a    *)
(* node object whose nodeType is not set.  The code only compares nodeType *)
(* with === and !==; undefined is written NO_NODE_TYPE, a value no DOM     *)
(* node type has.                                                          *)
(***************************************************************************)
NO_NODE_TYPE == 0
PROCESSING_INSTRUCTION_NODE == 7

\* an object with the fields of an element but no nodeType
Untyped(tag, attrs, kids) ==
  [nodeType |-> NO_NODE_TYPE, nodeName |-> tag, data |-> "",
   attributes |-> attrs, childNodes |-> kids]

ProcessingInstruction(target) ==
  [nodeType |-> PROCESSING_INSTRUCTION_NODE, nodeName |-> target, data |-> "",
   attributes |-> <<>>, childNodes |-> <<>>]

UntypedFull ==
  Untyped("DIV", << Attr("id", "a") >>,
          << Text("X"), Elem("P", <<>>, <<>>) >>)

UntypedBare == Untyped("DIV", << Attr("id", "b"), Attr("lang", "en") >>, <<>>)

MalformedFragments ==
  { UntypedFull,
    UntypedBare,
    Comment("c"),
    ProcessingInstruction("xml-stylesheet"),
    Elem("DIV", << Attr("id", "a") >>,
         << Text("X"), ProcessingInstruction("php") >>) }

MalformedDocs ==
  { Elem("BODY", <<>>, kids) : kids \in SeqsUpTo(MalformedFragments, MaxKids) }
    \cup { Elem("BODY", <<>>, << Text("X"), Comment("d") >>) }

MalformedInit ==
  /\ doc1 \in MalformedDocs
  /\ doc2 \in MalformedDocs
  /\ previous = <<>>
  /\ latest = <<>>
  /\ records = <<>>
  /\ rendered = <<>>
  /\ cli = NotStarted

Init ==
  /\ doc1 \in Docs
  /\ doc2 \in Docs
  /\ previous = <<>>
  /\ latest = <<>>
  /\ records = <<>>
  /\ rendered = <<>>
  /\ cli = NotStarted

\* one call of extractDiff on the current pair of documents
ExtractDiff ==
  /\ latest' = << [body1 |-> doc1, body2 |-> doc2,
                   result |-> extractDiff(doc1, doc2)] >>
  /\ previous' = latest
  /\ UNCHANGED << doc1, doc2, records, rendered, cli >>

\* the caller exchanges the two sources before comparing again
SwapSources ==
  /\ doc1 # doc2
  /\ doc1' = doc2
  /\ doc2' = doc1
  /\ UNCHANGED << previous, latest, records, rendered, cli >>

Next == ExtractDiff \/ SwapSources

Spec == Init /\ [][Next]_vars

\* the same calls, on trees that need not come from the HTML parser
MalformedSpec == MalformedInit /\ [][Next]_vars

(***************************************************************************)
(* generateDiffSummary on its own (lines 254-291): the records are those   *)
(* the engine writes, and records of an action it does not know.           *)
(***************************************************************************)
SummaryRecords ==
  { AddElementDiff(PlainDiv, PlainDiv, "", 0),
    AddElementDiff(PlainDiv, RichDiv, "", 1),
    [action |-> "removeAttribute", element |-> "DIV", path |-> "/BODY[0]",
     content |-> AttrContent("id", "a")],
    [action |-> "modifyTextElement", path |-> "/BODY[0]/DIV[0]",
     oldValue |-> "X", newValue |-> "Y"],
    [action |-> "moveElement", path |-> "/BODY[0]"],
    [action |-> "renameAttribute", element |-> "DIV", path |-> "/BODY[1]",
     oldValue |-> "id", newValue |-> "name"] }

SummaryInit ==
  /\ doc1 = TitleDoc
  /\ doc2 = TitleDoc
  /\ previous = <<>>
  /\ latest = <<>>
  /\ records \in SeqsUpTo(SummaryRecords, MaxRecords)
  /\ rendered = <<>>
  /\ cli = NotStarted

\* one call of generateDiffSummary on the records
GenerateDiffSummary ==
  /\ rendered' = << generateDiffSummary(records) >>
  /\ UNCHANGED << doc1, doc2, previous, latest, records, cli >>

SummaryNext == GenerateDiffSummary

SummarySpec == SummaryInit /\ [][SummaryNext]_vars

(***************************************************************************)
(* The command line program, cli.ts main (lines 188-201) and compare       *)
(* (lines 111-152), with fetchHTML (ai-eval.ts lines 315-358) and          *)
(* evaluateDifferences (lines 30-81).  A run starts after parseArgs and    *)
(* validateOptions accepted the options; an unset option is "".            *)
(***************************************************************************)
Urls == { "http://a/x", "http://b/y" }

Files == { "v1.html" }

\* the options of one side that validateOptions accepts (cli.ts 85-105)
SideOptions ==
  { [url |-> u, file |-> ""] : u \in Urls }
    \cup { [url |-> "", file |-> f] : f \in Files }

\* the <body> of the page a source serves when it can be fetched
Served(source) ==
  CASE source = "http://a/x" -> TitleDoc
    [] source = "http://b/y" -> TitleParagraphDoc
    [] OTHER -> TwoItemList

\* how a fetch settles: fetch() fulfils with an ok response, throws, or
\* fulfils with a response that is not ok (lines 317-320); file.text()
\* fulfils or throws (lines 336-337)
FetchOutcomes(isFile) ==
  IF isFile THEN { "ok", "unreadable" } ELSE { "ok", "unreachable", "status" }

\* `${error}` of the error caught at line 326 or 342
FetchCause(outcome) ==
  CASE outcome = "unreachable" -> "TypeError: fetch failed"
    [] outcome = "status" -> "Error: HTTP error! status: 404"
    [] outcome = "unreadable" -> "ENOENT: no such file or directory"

\* lines 327 and 343
FetchError(source, isFile, outcome) ==
  IF isFile
  THEN "Failed to read file " \o source \o ": " \o FetchCause(outcome)
  ELSE "Failed to fetch " \o source \o ": " \o FetchCause(outcome)

\* how evaluateDifferences ends: with an evaluation, in
\* createAzureOpenAIClient (lines 13-17, outside the try), or inside the
\* try (lines 52-80): the request rejects, the answer has no content, the
\* content is not JSON
EvaluateOutcomes == { "ok", "config", "api", "empty", "json" }

\* `${error}` of the error caught at line 77
EvaluateCause(outcome) ==
  CASE outcome = "api" -> "Error: Connection error."
    [] outcome = "empty" -> "Error: No response from Azure OpenAI"
    [] outcome = "json" -> "SyntaxError: JSON Parse error"

\* lines 14-16 (not wrapped) and line 79
EvaluateError(outcome) ==
  IF outcome = "config"
  THEN "Missing Azure OpenAI configuration. Please set "
         \o "AZURE_OPENAI_ENDPOINT, AZURE_OPENAI_API_KEY, "
         \o "AZURE_OPENAI_DEPLOYMENT, and AZURE_OPENAI_API_VERSION"
  ELSE "Failed to evaluate differences: " \o EvaluateCause(outcome)

\* cli.ts 113-116: source1 = options.url1 || options.file1
StartOfRun(side1, side2) ==
  [pc |-> "start",
   source |-> << IF side1.url # "" THEN side1.url ELSE side1.file,
                 IF side2.url # "" THEN side2.url ELSE side2.file >>,
   isFile |-> << side1.file # "", side2.file # "" >>,
   fetch |-> << "none", "none" >>,
   thrown |-> <<>>,
   diff |-> <<>>,
   evaluation |-> "none",
   stderr |-> <<>>,
   printed |-> FALSE,
   exitCode |-> <<>>]

CliInit ==
  /\ doc1 = TitleDoc
  /\ doc2 = TitleDoc
  /\ previous = <<>>
  /\ latest = <<>>
  /\ records = <<>>
  /\ rendered = <<>>
  /\ \E side1 \in SideOptions, side2 \in SideOptions :
       cli = StartOfRun(side1, side2)

\* cli.ts 122-125: both fetches are started, then Promise.all is awaited
StartFetches ==
  /\ cli.pc = "start"
  /\ cli' = [cli EXCEPT !.pc = "fetching", !.fetch = << "pending", "pending" >>]
  /\ UNCHANGED << doc1, doc2, previous, latest, records, rendered >>

\* the fetch of source i settles; the first rejection is the one with which
\* Promise.all rejects.  thrown keeps the stage and the side that failed
\* next to the message of the error.
FetchSettles(i) ==
  /\ cli.pc = "fetching"
  /\ cli.fetch[i] = "pending"
  /\ \E outcome \in FetchOutcomes(cli.isFile[i]) :
       cli' = [cli EXCEPT
                 !.fetch[i] = outcome,
                 !.thrown =
                   IF outcome # "ok" /\ cli.thrown = <<>>
                   THEN << [stage |-> "fetch", side |-> i,
                            message |-> FetchError(cli.source[i],
                                                   cli.isFile[i], outcome)] >>
                   ELSE cli.thrown]
  /\ UNCHANGED << doc1, doc2, previous, latest, records, rendered >>

\* cli.ts 122-133: Promise.all fulfils and extractDiff runs on the two pages
DiffOfSources ==
  /\ cli.pc = "fetching"
  /\ cli.fetch = << "ok", "ok" >>
  /\ cli' = [cli EXCEPT
               !.pc = "diffed",
               !.diff = << extractDiff(Served(cli.source[1]),
                                       Served(cli.source[2])) >>]
  /\ UNCHANGED << doc1, doc2, previous, latest, records, rendered >>

\* cli.ts 141-142 with ai-eval.ts 30-81; line 78 writes to stderr before the
\* error is thrown again
Evaluate ==
  /\ cli.pc = "diffed"
  /\ cli.thrown = <<>>
  /\ \E outcome \in EvaluateOutcomes :
       cli' = [cli EXCEPT
                 !.pc = IF outcome = "ok" THEN "evaluated" ELSE "diffed",
                 !.evaluation = outcome,
                 !.stderr =
                   IF outcome \in { "api", "empty", "json" }
                   THEN Append(cli.stderr, "Azure OpenAI API error: "
                                              \o EvaluateCause(outcome))
                   ELSE cli.stderr,
                 !.thrown =
                   IF outcome = "ok" THEN cli.thrown
                   ELSE << [stage |-> "evaluate", side |-> 0,
                            message |-> EvaluateError(outcome)] >>]
  /\ UNCHANGED << doc1, doc2, previous, latest, records, rendered >>

\* cli.ts 194 and 157-183: the result is printed and the run ends
FormatOutput ==
  /\ cli.pc = "evaluated"
  /\ cli' = [cli EXCEPT !.pc = "exited", !.printed = TRUE, !.exitCode = << 0 >>]
  /\ UNCHANGED << doc1, doc2, previous, latest, records, rendered >>

\* cli.ts 195-198: the catch of main prints the error and exits with 1
CatchError ==
  /\ cli.pc \in { "fetching", "diffed" }
  /\ cli.thrown # <<>>
  /\ cli' = [cli EXCEPT
               !.pc = "exited",
               !.stderr = Append(cli.stderr, "Error: " \o cli.thrown[1].message),
               !.exitCode = << 1 >>]
  /\ UNCHANGED << doc1, doc2, previous, latest, records, rendered >>

CliNext ==
  \/ StartFetches
  \/ \E i \in 1..2 : FetchSettles(i)
  \/ DiffOfSources
  \/ Evaluate
  \/ FormatOutput
  \/ CatchError

CliSpec == CliInit /\ [][CliNext]_vars

(***************************************************************************)
(* Vocabulary of the properties.                                           *)
(***************************************************************************)
Min(a, b) == IF a < b THEN a ELSE b

HasPrefix(s, pre) == Len(s) >= Len(pre) /\ SubSeq(s, 1, Len(pre)) = pre

Count(seq, x) == Cardinality({ k \in 1..Len(seq) : seq[k] = x })

Range(seq) == { seq[k] : k \in 1..Len(seq) }

AttrNames(el) == { el.attributes[k].name : k \in 1..Len(el.attributes) }

AttrActions == { "addAttribute", "removeAttribute", "modifyAttribute" }

RECURSIVE SplitLines(_, _)
\* the lines of s, cut at every line feed; cur is the line read so far
SplitLines(s, cur) ==
  LET feeds == { i \in 1..Len(s) : CharAt(s, i) = "\n" }
  IN  IF feeds = {} THEN << cur \o s >>
      ELSE LET first == CHOOSE i \in feeds : \A j \in feeds : i <= j
           IN  << cur \o SubSeq(s, 1, first - 1) >>
                 \o SplitLines(SubSeq(s, first + 1, Len(s)), "")

NonEmptyLines(s) == SelectSeq(SplitLines(s, ""), LAMBDA l : l # "")

\* A position is a sequence of segments [tag, index]: tag is the tag of the
\* parent element, index the place of the child among its siblings counted
\* from 0.  SegPath renders it with indices counted from base.
RECURSIVE SegPath(_, _)
SegPath(segs, base) ==
  IF Len(segs) = 0 THEN ""
  ELSE SegPath(SubSeq(segs, 1, Len(segs) - 1), base)
         \o "/" \o segs[Len(segs)].tag
         \o "[" \o ToString(segs[Len(segs)].index + base) \o "]"

SameTagElements(a, b) ==
  /\ a.nodeType = ELEMENT_NODE
  /\ b.nodeType = ELEMENT_NODE
  /\ a.nodeName = b.nodeName

RECURSIVE ComparedPairs(_, _, _)
\* the pairs of nodes that face each other at the same position of the two
\* trees: the roots, and the i-th children of every pair of same-tag elements
ComparedPairs(a, b, segs) ==
  { [a |-> a, b |-> b, segs |-> segs] } \cup
  ( IF SameTagElements(a, b)
    THEN UNION { ComparedPairs(a.childNodes[i + 1], b.childNodes[i + 1],
                               Append(segs, [tag |-> a.nodeName, index |-> i]))
                 : i \in 0..(Min(Len(a.childNodes), Len(b.childNodes)) - 1) }
    ELSE {} )

PairsOf(call) == ComparedPairs(call.body1, call.body2, <<>>)

Path(pair) == SegPath(pair.segs, 0)

\* the records about the pair at path p and about everything below it
RecordsUnder(diffs, p) ==
  SelectSeq(diffs, LAMBDA r : r.path = p \/ HasPrefix(r.path, p \o "/"))

\* the records about what lies strictly below the pair at path p
RecordsBelow(diffs, p) ==
  SelectSeq(diffs, LAMBDA r : HasPrefix(r.path, p \o "/"))

Calls == Range(previous) \cup Range(latest)

(***************************************************************************)
(* C1. Identity: comparing a tree with an identical copy yields no record, *)
(* count 0 and an empty summary.                                           *)
(***************************************************************************)
C1_Identity ==
  \A c \in Calls :
    c.body1 = c.body2 =>
      /\ c.result.diffs = <<>>
      /\ c.result.count = 0
      /\ c.result.summary = ""

\* a tree with attributes, text, a comment and nested elements was compared
\* with its copy
C1_Witness ==
  \E c \in Calls :
    /\ c.body1 = c.body2
    /\ \E k \in 1..Len(c.body1.childNodes) :
         LET n == c.body1.childNodes[k]
         IN  /\ n.nodeType = ELEMENT_NODE
             /\ Len(n.attributes) >= 2
             /\ \E j \in 1..Len(n.childNodes) :
                  n.childNodes[j].nodeType = TEXT_NODE
             /\ \E j \in 1..Len(n.childNodes) :
                  n.childNodes[j].nodeType = COMMENT_NODE

(***************************************************************************)
(* C2. Count consistency: count is the number of records and the summary   *)
(* has exactly count non-empty lines, whatever the records contain.        *)
(***************************************************************************)
C2_CountConsistency ==
  \A c \in Calls :
    /\ c.result.count = Len(c.result.diffs)
    /\ Len(NonEmptyLines(c.result.summary)) = c.result.count

(***************************************************************************)
(* C3. Child comparison is strictly positional: below a pair of same-tag   *)
(* elements the records are, index by index, those of the comparison of    *)
(* the two i-th children while both exist, then one addElement (B longer)  *)
(* or removeElement (A longer) per remaining index, with path              *)
(* path/TAG[i], the child's node name and the first 50 characters of its   *)
(* text content; the two scenarios of the specification follow.            *)
(***************************************************************************)
First50(s) == IF Len(s) <= 50 THEN s ELSE SubSeq(s, 1, 50)

ExpectedChildRecords(pr) ==
  LET a == pr.a
      b == pr.b
      lenA == Len(a.childNodes)
      lenB == Len(b.childNodes)
      SlotPath(i) ==
        Path(pr) \o "/" \o a.nodeName \o "[" \o ToString(i) \o "]"
      Slot(i) ==
        IF i < Min(lenA, lenB)
        THEN extractStructuralDifferences(a.childNodes[i + 1],
                                          b.childNodes[i + 1], SlotPath(i))
        ELSE IF lenB > lenA
        THEN << [action |-> "addElement",
                 element |-> b.childNodes[i + 1].nodeName,
                 path |-> SlotPath(i),
                 content |-> First50(TextContent(b.childNodes[i + 1]))] >>
        ELSE << [action |-> "removeElement",
                 element |-> a.childNodes[i + 1].nodeName,
                 path |-> SlotPath(i),
                 content |-> First50(TextContent(a.childNodes[i + 1]))] >>
  IN  Flatten([k \in 1..Max(lenA, lenB) |-> Slot(k - 1)])

C3_PositionalChildren ==
  \A c \in Calls :
    /\ \A pr \in PairsOf(c) :
         SameTagElements(pr.a, pr.b) =>
           RecordsBelow(c.result.diffs, Path(pr)) = ExpectedChildRecords(pr)
    /\ (c.body1 = TitleDoc /\ c.body2 = TitleParagraphDoc) =>
         c.result.diffs =
           << [action |-> "addElement", element |-> "P",
               path |-> "/BODY[1]", content |-> "New paragraph"] >>
    /\ (c.body1 = TwoItemList /\ c.body2 = ThreeItemList) =>
         c.result.diffs =
           << [action |-> "modifyTextElement", path |-> "/BODY[0]/UL[0]/LI[0]",
               oldValue |-> "X", newValue |-> "NEW"],
              [action |-> "modifyTextElement", path |-> "/BODY[0]/UL[1]/LI[0]",
               oldValue |-> "Y", newValue |-> "X"],
              [action |-> "addElement", element |-> "LI",
               path |-> "/BODY[0]/UL[2]", content |-> "Y"] >>

\* a child list grew behind children that were compared in place, and the
\* added child's text is longer than the preview
C3_Witness ==
  \E c \in Calls : \E pr \in PairsOf(c) :
    /\ SameTagElements(pr.a, pr.b)
    /\ Len(pr.a.childNodes) >= 1
    /\ Len(pr.b.childNodes) > Len(pr.a.childNodes)
    /\ pr.a.childNodes[1] # pr.b.childNodes[1]
    /\ \E k \in (Len(pr.a.childNodes) + 1)..Len(pr.b.childNodes) :
         /\ Len(TextContent(pr.b.childNodes[k])) > 50
         /\ Len(pr.b.childNodes[k].childNodes) > 0
    /\ \E k \in 1..Len(c.result.diffs) :
         /\ c.result.diffs[k].action = "addElement"
         /\ Len(c.result.diffs[k].content) = 50

(***************************************************************************)
(* C4. Kind mismatch: a compared pair of nodes of different kinds yields   *)
(* exactly one replaceNode record at its path, naming the two nodes, and   *)
(* nothing from below the pair.                                            *)
(***************************************************************************)
C4_KindMismatch ==
  \A c \in Calls : \A pr \in PairsOf(c) :
    pr.a.nodeType # pr.b.nodeType =>
      RecordsUnder(c.result.diffs, Path(pr)) =
        << [action |-> "replaceNode", path |-> Path(pr),
            oldValue |-> pr.a.nodeName, newValue |-> pr.b.nodeName] >>

\* a text node faced an element that has attributes and children
C4_Witness ==
  \E c \in Calls : \E pr \in PairsOf(c) :
    /\ pr.a.nodeType = TEXT_NODE
    /\ pr.b.nodeType = ELEMENT_NODE
    /\ Len(pr.b.attributes) > 0
    /\ Len(pr.b.childNodes) > 0
    /\ Trim(pr.a.data) # ""

(***************************************************************************)
(* C5. Tag mismatch: a compared pair of elements with different tag names  *)
(* yields exactly one replaceElement record at its path with the two tag   *)
(* names, and no attribute or child record.                                *)
(***************************************************************************)
C5_TagMismatch ==
  \A c \in Calls : \A pr \in PairsOf(c) :
    ( /\ pr.a.nodeType = ELEMENT_NODE
      /\ pr.b.nodeType = ELEMENT_NODE
      /\ pr.a.nodeName # pr.b.nodeName ) =>
      RecordsUnder(c.result.diffs, Path(pr)) =
        << [action |-> "replaceElement", path |-> Path(pr),
            oldValue |-> pr.a.nodeName, newValue |-> pr.b.nodeName] >>

\* a DIV faced a SECTION, with different attributes and different children
C5_Witness ==
  \E c \in Calls : \E pr \in PairsOf(c) :
    /\ pr.a.nodeType = ELEMENT_NODE
    /\ pr.b.nodeType = ELEMENT_NODE
    /\ pr.a.nodeName = "DIV"
    /\ pr.b.nodeName = "SECTION"
    /\ pr.a.attributes # pr.b.attributes
    /\ pr.a.childNodes # pr.b.childNodes
    /\ Len(pr.a.childNodes) # Len(pr.b.childNodes)

(***************************************************************************)
(* C6. Text rule: a compared pair of text nodes yields one                 *)
(* modifyTextElement record with the two trimmed texts when both trimmed   *)
(* texts are non-empty and differ, and no record in every other case.      *)
(***************************************************************************)
C6_TextRule ==
  \A c \in Calls : \A pr \in PairsOf(c) :
    ( pr.a.nodeType = TEXT_NODE /\ pr.b.nodeType = TEXT_NODE ) =>
      LET t1 == Trim(pr.a.data)
          t2 == Trim(pr.b.data)
      IN  RecordsUnder(c.result.diffs, Path(pr)) =
            IF t1 # "" /\ t2 # "" /\ t1 # t2
            THEN << [action |-> "modifyTextElement", path |-> Path(pr),
                     oldValue |-> t1, newValue |-> t2] >>
            ELSE <<>>

\* a text that is not blank faced a blank one
C6_Witness ==
  \E c \in Calls : \E pr \in PairsOf(c) :
    /\ pr.a.nodeType = TEXT_NODE
    /\ pr.b.nodeType = TEXT_NODE
    /\ Trim(pr.a.data) # ""
    /\ pr.b.data # ""
    /\ Trim(pr.b.data) = ""

(***************************************************************************)
(* C7. Attribute symmetry: for a compared pair of same-tag elements, each  *)
(* name only in B yields exactly one addAttribute record name="value" with *)
(* B's value, each name only in A exactly one removeAttribute record with  *)
(* A's value, each name in both with different values exactly one          *)
(* modifyAttribute record, and equal attributes none; comparing the same   *)
(* documents the other way round turns the addAttribute records into       *)
(* removeAttribute records with the same element and content, and back.    *)
(***************************************************************************)
ValueOf(el, n) ==
  el.attributes[CHOOSE k \in 1..Len(el.attributes) :
                  el.attributes[k].name = n].value

Quoted(n, v) == n \o "=\"" \o v \o "\""

\* the records about the attributes of the pair at path p
AttrRecords(diffs, p) ==
  SelectSeq(diffs, LAMBDA r : r.path = p /\ r.action \in AttrActions)

\* element and content of the records of one action, in order
ElementContent(diffs, action) ==
  LET sel == SelectSeq(diffs, LAMBDA r : r.action = action)
  IN  [k \in 1..Len(sel) |->
         [element |-> sel[k].element, content |-> sel[k].content]]

SameBag(s1, s2) ==
  /\ Len(s1) = Len(s2)
  /\ \A x \in Range(s1) \cup Range(s2) : Count(s1, x) = Count(s2, x)

C7_AttributeSymmetry ==
  /\ \A c \in Calls : \A pr \in PairsOf(c) :
       SameTagElements(pr.a, pr.b) =>
         LET recs == AttrRecords(c.result.diffs, Path(pr))
             onlyB == AttrNames(pr.b) \ AttrNames(pr.a)
             onlyA == AttrNames(pr.a) \ AttrNames(pr.b)
             changed == { n \in AttrNames(pr.a) \cap AttrNames(pr.b) :
                            ValueOf(pr.a, n) # ValueOf(pr.b, n) }
         IN  /\ \A n \in onlyB :
                  Count(recs, [action |-> "addAttribute",
                               element |-> pr.a.nodeName, path |-> Path(pr),
                               content |-> Quoted(n, ValueOf(pr.b, n))]) = 1
             /\ \A n \in onlyA :
                  Count(recs, [action |-> "removeAttribute",
                               element |-> pr.a.nodeName, path |-> Path(pr),
                               content |-> Quoted(n, ValueOf(pr.a, n))]) = 1
             /\ \A n \in changed :
                  Count(recs, [action |-> "modifyAttribute",
                               element |-> pr.a.nodeName, path |-> Path(pr),
                               oldValue |-> Quoted(n, ValueOf(pr.a, n)),
                               newValue |-> Quoted(n, ValueOf(pr.b, n))]) = 1
             /\ Len(recs) = Cardinality(onlyB) + Cardinality(onlyA)
                              + Cardinality(changed)
  /\ \A c \in Calls : \A d \in Calls :
       ( d.body1 = c.body2 /\ d.body2 = c.body1 ) =>
         /\ SameBag(ElementContent(c.result.diffs, "addAttribute"),
                    ElementContent(d.result.diffs, "removeAttribute"))
         /\ SameBag(ElementContent(c.result.diffs, "removeAttribute"),
                    ElementContent(d.result.diffs, "addAttribute"))

\* the link scenario, compared in both directions: one addAttribute record
\* one way, one removeAttribute record with the same content the other way
C7_Witness ==
  /\ previous # <<>>
  /\ latest # <<>>
  /\ previous[1].body1 = LinkDoc
  /\ previous[1].body2 = BlankLinkDoc
  /\ latest[1].body1 = BlankLinkDoc
  /\ latest[1].body2 = LinkDoc
  /\ previous[1].result.diffs =
       << [action |-> "addAttribute", element |-> "A", path |-> "/BODY[0]",
           content |-> "target=\"_blank\""] >>
  /\ latest[1].result.diffs =
       << [action |-> "removeAttribute", element |-> "A", path |-> "/BODY[0]",
           content |-> "target=\"_blank\""] >>

UnpairedSlots(c) ==
  UNION { { [parent |-> pr, index |-> i,
             segs |-> Append(pr.segs, [tag |-> pr.a.nodeName, index |-> i])]
            : i \in Min(Len(pr.a.childNodes), Len(pr.b.childNodes))
                    ..(Max(Len(pr.a.childNodes), Len(pr.b.childNodes)) - 1) }
          : pr \in { q \in PairsOf(c) : SameTagElements(q.a, q.b) } }

PathFormat(base) ==
  \A c \in Calls :
    LET diffs == c.result.diffs
    IN  /\ \A r \in Range(diffs) :
             \/ \E pr \in PairsOf(c) : r.path = SegPath(pr.segs, base)
             \/ \E sl \in UnpairedSlots(c) : r.path = SegPath(sl.segs, base)
        /\ \A r \in Range(diffs) :
             ( r.action \in AttrActions /\ r.element = "BODY" ) => r.path = ""
        /\ \A sl \in UnpairedSlots(c) :
             LET a == sl.parent.a
                 b == sl.parent.b
                 added == Len(b.childNodes) > Len(a.childNodes)
                 child == IF added THEN b.childNodes[sl.index + 1]
                          ELSE a.childNodes[sl.index + 1]
             IN  \E r \in Range(diffs) :
                   /\ r.action = IF added THEN "addElement" ELSE "removeElement"
                   /\ r.element = child.nodeName
                   /\ r.path = SegPath(sl.segs, base)
        /\ \A pr \in PairsOf(c) :
             /\ pr.a.nodeType # pr.b.nodeType =>
                  \E r \in Range(diffs) :
                    /\ r.action = "replaceNode"
                    /\ r.path = SegPath(pr.segs, base)
                    /\ r.oldValue = pr.a.nodeName
                    /\ r.newValue = pr.b.nodeName
             /\ ( /\ pr.a.nodeType = ELEMENT_NODE
                  /\ pr.b.nodeType = ELEMENT_NODE
                  /\ pr.a.nodeName # pr.b.nodeName ) =>
                  \E r \in Range(diffs) :
                    /\ r.action = "replaceElement"
                    /\ r.path = SegPath(pr.segs, base)
                    /\ r.oldValue = pr.a.nodeName
                    /\ r.newValue = pr.b.nodeName
             /\ ( /\ pr.a.nodeType = TEXT_NODE
                  /\ pr.b.nodeType = TEXT_NODE
                  /\ Trim(pr.a.data) # ""
                  /\ Trim(pr.b.data) # ""
                  /\ Trim(pr.a.data) # Trim(pr.b.data) ) =>
                  \E r \in Range(diffs) :
                    /\ r.action = "modifyTextElement"
                    /\ r.path = SegPath(pr.segs, base)
                    /\ r.oldValue = Trim(pr.a.data)
                    /\ r.newValue = Trim(pr.b.data)

\* C9 as claimed: the index of a segment is the 1-based child index
C9_PathOneBased == PathFormat(1)

\* C9 as amended: the index of a segment is the 0-based child index, under
\* the parent element whose tag the segment names
C9_PathZeroBased == PathFormat(0)

\* one comparison produced a record about the root pair and a record two
\* levels down, at a position that is not the first child on either level
C9_Witness ==
  \E c \in Calls :
    /\ \E r \in Range(c.result.diffs) : r.path = ""
    /\ \E r \in Range(c.result.diffs) : r.path = "/BODY[1]/DIV[1]"
    /\ \E r \in Range(c.result.diffs) : r.path = "/BODY[1]/DIV[2]"

(***************************************************************************)
(* C10. Record order: for a compared pair of same-tag elements, its        *)
(* attribute records come before every record of its children, among its   *)
(* attribute records every addAttribute comes before every                 *)
(* removeAttribute, and the records of child index i come before those of  *)
(* child index j when i < j.                                               *)
(***************************************************************************)
ChildSlotPath(pr, i) ==
  SegPath(Append(pr.segs, [tag |-> pr.a.nodeName, index |-> i]), 0)

AtOrUnder(r, p) == r.path = p \/ HasPrefix(r.path, p \o "/")

\* where a record with path q stands relative to the pair at path p whose
\* child slots have the paths slots[1..n]: -1 for a record about the pair
\* itself, i for a record at or under child index i, n for any other record
Place(q, p, slots) ==
  IF q = p THEN -1
  ELSE IF \E k \in 1..Len(slots) : q = slots[k] \/ HasPrefix(q, slots[k] \o "/")
       THEN (CHOOSE k \in 1..Len(slots) :
               q = slots[k] \/ HasPrefix(q, slots[k] \o "/")) - 1
       ELSE Len(slots)

RECURSIVE Places(_, _, _)
\* the places of the records of diffs, in order
Places(diffs, p, slots) ==
  IF Len(diffs) = 0 THEN <<>>
  ELSE << Place(diffs[1].path, p, slots) >> \o Places(Tail(diffs), p, slots)

\* place[k] is the place of diffs[k]; n is the number of child slots
InOrder(diffs, place, n) ==
  \A x \in 1..Len(diffs) : \A y \in 1..Len(diffs) :
    /\ ( place[x] = -1 /\ place[y] \in 0..(n - 1) ) => x < y
    /\ ( /\ place[x] = -1
         /\ place[y] = -1
         /\ diffs[x].action = "addAttribute"
         /\ diffs[y].action = "removeAttribute" ) => x < y
    /\ ( /\ place[x] \in 0..(n - 1)
         /\ place[y] \in 0..(n - 1)
         /\ place[x] < place[y] ) => x < y

C10_RecordOrder ==
  \A c \in Calls : \A pr \in PairsOf(c) :
    SameTagElements(pr.a, pr.b) =>
      LET diffs == c.result.diffs
          n == Max(Len(pr.a.childNodes), Len(pr.b.childNodes))
          slots == [k \in 1..n |-> ChildSlotPath(pr, k - 1)]
      IN  InOrder(diffs, Places(diffs, Path(pr), slots), n)

\* one pair of same-tag elements had an attribute added, another removed,
\* and records under two of its child indices
C10_Witness ==
  \E c \in Calls : \E pr \in PairsOf(c) :
    /\ SameTagElements(pr.a, pr.b)
    /\ \E r \in Range(c.result.diffs) :
         r.path = Path(pr) /\ r.action = "addAttribute"
    /\ \E r \in Range(c.result.diffs) :
         r.path = Path(pr) /\ r.action = "removeAttribute"
    /\ \E r \in Range(c.result.diffs) : AtOrUnder(r, ChildSlotPath(pr, 0))
    /\ \E r \in Range(c.result.diffs) : AtOrUnder(r, ChildSlotPath(pr, 1))

(***************************************************************************)
(* C11. Malformed input.  A node whose kind is not set or not recognised   *)
(* (neither element nor text) never has its attributes or children         *)
(* compared, and the pair it belongs to yields one replaceNode record or   *)
(* none.  KindOf is the three-valued kind of the specification.            *)
(***************************************************************************)
KindOf(node) ==
  IF node.nodeType = ELEMENT_NODE THEN "Element"
  ELSE IF node.nodeType = TEXT_NODE THEN "Text"
  ELSE "Other"

OtherKindPairs(c) ==
  { pr \in PairsOf(c) : KindOf(pr.a) = "Other" \/ KindOf(pr.b) = "Other" }

KnownActions ==
  { "addElement", "removeElement", "modifyTextElement", "addAttribute",
    "removeAttribute", "modifyAttribute", "replaceElement", "replaceNode" }

C12_OneLinePerRecord ==
  \A k \in 1..Len(rendered) :
    LET lines == NonEmptyLines(rendered[k])
    IN  /\ Len(lines) = Len(records)
        /\ \A i \in 1..Len(records) :
             records[i].action \notin KnownActions =>
               lines[i] = "? Unknown action: " \o records[i].action

(***************************************************************************)
(* C13. Error surfacing: when a fetch, a file read or the evaluation       *)
(* failed, the run ends with a non-zero exit code, prints no comparison    *)
(* result, and the error shown tells which stage failed and, for a fetch,  *)
(* which of source 1 and source 2, also when both sources fail or name the *)
(* same URL or file.  The reading is the weakest one: the stage is told by *)
(* the words of the message, the side by the source named in it.           *)
(***************************************************************************)
Contains(s, sub) ==
  \E i \in 1..(Len(s) - Len(sub) + 1) : SubSeq(s, i, i + Len(sub) - 1) = sub

\* the error the user is shown: the last line written to stderr
ShownError == cli.stderr[Len(cli.stderr)]

\* the stages the shown error can be read to speak of
StagesNamed ==
  { "fetch" : x \in { w \in { "Failed to fetch ", "Failed to read file " } :
                        Contains(ShownError, w) } }
    \cup { "evaluate" : x \in { w \in { "evaluate", "Azure OpenAI" } :
                                  Contains(ShownError, w) } }

\* the sides whose source the shown error names as the one not fetched
SidesNamed ==
  { i \in 1..2 :
      \E outcome \in FetchOutcomes(cli.isFile[i]) \ { "ok" } :
        ShownError = "Error: "
          \o FetchError(cli.source[i], cli.isFile[i], outcome) }

\* a fetch or the evaluation failed in this run
SomethingFailed ==
  /\ cli.pc # "idle"
  /\ \/ \E i \in 1..2 : cli.fetch[i] \notin { "none", "pending", "ok" }
     \/ cli.evaluation \notin { "none", "ok" }

C13_ErrorSurfacing ==
  /\ (cli.pc # "idle" /\ cli.printed) => ~SomethingFailed
  /\ (cli.pc = "exited" /\ SomethingFailed) =>
       /\ cli.exitCode = << 1 >>
       /\ ~cli.printed
       /\ StagesNamed = { cli.thrown[1].stage }
       /\ cli.thrown[1].stage = "fetch" =>
            /\ SidesNamed = { cli.thrown[1].side }
            /\ cli.fetch[cli.thrown[1].side] \notin { "pending", "ok" }
====
